---- MODULE Spec2Model ----
(***************************************************************************)
(* Model of the vscode-vale extension (src/src/extension.ts, lines 1-435): *)
(* the per-document lint handler, the close handler, the "lint workspace"  *)
(* command and the vale version check, acting on the DiagnosticCollection  *)
(* of the host.  Every await of the source is a suspension point: a        *)
(* handler is a task that advances by one action per completed await.      *)
(***************************************************************************)
EXTENDS Naturals, Integers, Sequences, FiniteSets, Bags, TLC

VARIABLES
    store,      \* the DiagnosticCollection: present uris -> diagnostics
    dirty,      \* the documents whose isDirty flag is set
    installed,  \* what `vale --version` prints, or NotInstalled
    configuration, \* workspace.getConfiguration(): the user's settings
    tasks,      \* bag of suspended handlers (one record per pending await)
    queried,    \* folders for which a version-query subprocess was started
    last,       \* what the most recent step did
    events      \* number of host events delivered so far

vars == <<store, dirty, installed, configuration, tasks, queried, last, events>>

\* ------------------------------------------------------------- bounds
\* Host events (open, save, close, edit, command) per behaviour.
MaxEvents == 3
\* Files that one enumeration of the workspace returns at most.
MaxFiles == 3
\* Lines and columns (1-based) of the findings that are converted.
MaxLine == 4
MaxColumn == 8

\* ------------------------------------------------- the host's workspace
None == "none"

\* workspace.workspaceFolders: paths are sequences of segments.
workspaceFolders == << <<"r1">>, <<"r2">> >>

IsPrefix(p, q) == Len(p) <= Len(q) /\ SubSeq(q, 1, Len(p)) = p

\* Uri.file(fileName)
UriFile(fileName) == [scheme |-> "file", fsPath |-> fileName]

\* A WorkspaceFolder (folder.index is 0-based); NoFolder is `undefined`.
Folder(i) == [index |-> i - 1, fsPath |-> workspaceFolders[i]]
NoFolder == [index |-> -1, fsPath |-> <<>>]
Folders == {Folder(i) : i \in DOMAIN workspaceFolders}

\* workspace.getWorkspaceFolder(uri): the folder that contains the uri.
getWorkspaceFolder(uri) ==
    IF uri.scheme = "file"
       /\ \E i \in DOMAIN workspaceFolders : IsPrefix(workspaceFolders[i], uri.fsPath)
    THEN Folder(CHOOSE i \in DOMAIN workspaceFolders :
                    IsPrefix(workspaceFolders[i], uri.fsPath))
    ELSE NoFolder

\* TextDocument handles of the host: uri, languageId; isDirty is state.
DocA == [uri |-> UriFile(<<"r1", "a.md">>), languageId |-> "markdown"]
DocN == [uri |-> UriFile(<<"x", "n.ts">>), languageId |-> "typescript"]
Documents == {DocA, DocN}

\* An editor that was never saved to a file: its uri has no file scheme.
DocU == [uri |-> [scheme |-> "untitled", fsPath |-> <<"Untitled-1">>],
         languageId |-> "markdown"]

\* A file of the second workspace folder (never opened in an editor).
FileC == UriFile(<<"r2", "c.md">>)
\* More files on disk: a second file of the first folder, and a text file
\* outside every workspace folder.
FileB == UriFile(<<"r1", "b.md">>)
FileX == UriFile(<<"x", "o.md">>)
\* The text file outside every workspace folder, open in an editor.
DocX == [uri |-> FileX, languageId |-> "markdown"]
NoDocument == [uri |-> [scheme |-> "", fsPath |-> <<>>], languageId |-> ""]

fileName(document) == document.uri.fsPath

\* The formats the documentation names as supported (README, CHANGELOG).
RecognizedLanguages == {"markdown", "restructuredtext", "latex", "plaintext", "asciidoc"}

\* languages.match(selector, document) of the host: the score of a document
\* filter; a filter field that is absent (None) does not constrain.
languagesMatch(selector, document) ==
    IF selector.scheme # None /\ selector.scheme # document.uri.scheme THEN 0
    ELSE IF selector.language # None /\ selector.language # document.languageId THEN 0
    ELSE 10

isElligibleDocument_IgnoreDirty(document, isDirty) ==
    0 < languagesMatch([scheme |-> "file", language |-> None], document)

\* isElligibleDocument: !document.isDirty && 0 < languages.match({scheme:"file"}, document)
isElligibleDocument(document, isDirty) ==
    ~isDirty /\ 0 < languagesMatch([scheme |-> "file", language |-> None], document)

\* ------------------------------------------------------ the version gate
\* Standard output is a sequence of lines, a line a sequence of words; a
\* word is plain text or a dotted version number, possibly with a
\* prerelease tag ("0.8.0-beta").
W(s) == [text |-> s, version |-> <<>>, prerelease |-> FALSE]
V(a, b, c) == [text |-> "", version |-> <<a, b, c>>, prerelease |-> FALSE]
VPre(a, b, c) == [text |-> "", version |-> <<a, b, c>>, prerelease |-> TRUE]
VersionLine(word) == <<W("vale"), W("version"), word>>

NoMatch == <<>>

\* stdout.match(/^vale version (.+)$/m): the capture of the first line that
\* starts with "vale version " and has at least one more character.
MatchesVersionLine(line) ==
    Len(line) >= 3 /\ line[1] = W("vale") /\ line[2] = W("version")

matchVersion(stdout) ==
    IF \E i \in DOMAIN stdout : MatchesVersionLine(stdout[i])
    THEN LET i == CHOOSE k \in DOMAIN stdout :
                      /\ MatchesVersionLine(stdout[k])
                      /\ \A j \in 1..(k - 1) : ~MatchesVersionLine(stdout[j])
         IN SubSeq(stdout[i], 3, Len(stdout[i]))
    ELSE NoMatch

\* getValeVersion after the subprocess has printed stdout: the version
\* token, or the error thrown.
getValeVersion(stdout) ==
    LET matches == matchVersion(stdout)
    IN IF matches # NoMatch
       THEN [error |-> "none", version |-> matches]
       ELSE [error |-> "VersionParseError", version |-> NoMatch]

\* VERSION_REQUIREMENTS = ">= 0.7.2"
VERSION_REQUIREMENTS == [operator |-> ">=", version |-> <<0, 7, 2>>]

\* semver: a version string is valid when it is one word of three numbers.
semverValid(version) == Len(version) = 1 /\ Len(version[1].version) = 3

semverCompare(a, b) ==
    IF a[1] # b[1] THEN (IF a[1] < b[1] THEN -1 ELSE 1)
    ELSE IF a[2] # b[2] THEN (IF a[2] < b[2] THEN -1 ELSE 1)
    ELSE IF a[3] # b[3] THEN (IF a[3] < b[3] THEN -1 ELSE 1)
    ELSE 0

\* semver.satisfies(version, range) for a ">=" range: "true", "false", or
\* "throw" (Range.test builds a SemVer from the string; the 5.x line that
\* package.json asks for throws TypeError on an invalid version, later
\* major versions return false: `strict` says which one is installed).
\* A prerelease version satisfies only a range that names a prerelease of
\* the same major.minor.patch.
semverSatisfies(version, range, strict) ==
    IF ~semverValid(version) THEN (IF strict THEN "throw" ELSE "false")
    ELSE IF version[1].prerelease THEN "false"
    ELSE IF semverCompare(version[1].version, range.version) >= 0 THEN "true"
    ELSE "false"

checkValeVersionSatisfies_NoMinimum(stdout, strict) == getValeVersion(stdout).error

\* checkValeVersionSatisfies after the version query has completed: "none"
\* when the check passes, else the error it throws.
checkValeVersionSatisfies(stdout, strict) ==
    LET got == getValeVersion(stdout)
        sat == semverSatisfies(got.version, VERSION_REQUIREMENTS, strict)
    IN IF got.error # "none" THEN got.error
       ELSE IF sat = "throw" THEN "TypeError"
       ELSE IF sat = "true" \/ got.version = <<W("master")>> THEN "none"
       ELSE "IncompatibleVersionError"

\* --------------------------------------------------- the result parser
toSeverity_WarningAsError(severity) ==
    CASE severity = "suggestion" -> "Information"
      [] severity = "warning" -> "Error"
      [] severity = "error" -> "Error"

\* toSeverity: the DiagnosticSeverity of a vale severity.
toSeverity(severity) ==
    CASE severity = "suggestion" -> "Information"
      [] severity = "warning" -> "Warning"
      [] severity = "error" -> "Error"

\* new Range(startLine, startCharacter, endLine, endCharacter) of the host:
\* start and end are swapped when start is after end.
Range(startLine, startCharacter, endLine, endCharacter) ==
    IF startLine < endLine \/ (startLine = endLine /\ startCharacter <= endCharacter)
    THEN [start |-> <<startLine, startCharacter>>, end |-> <<endLine, endCharacter>>]
    ELSE [start |-> <<endLine, endCharacter>>, end |-> <<startLine, startCharacter>>]

\* error.Link of a finding that may lack the property: undefined is falsy,
\* as the empty string is.
LinkOf(error) == IF "Link" \in DOMAIN error THEN error.Link ELSE ""

toDiagnostic_EndDecremented(error) ==
    [range |-> Range(error.Line - 1, error.Span[1] - 1, error.Line - 1, error.Span[2] - 1),
     message |-> IF LinkOf(error) # ""
                 THEN error.Message \o " (" \o error.Check \o ", see " \o error.Link \o ")"
                 ELSE error.Message \o " (" \o error.Check \o ")",
     severity |-> toSeverity(error.Severity),
     source |-> "vale",
     code |-> error.Check]

toDiagnostic_LinkAlways(error) ==
    [range |-> Range(error.Line - 1, error.Span[1] - 1, error.Line - 1, error.Span[2]),
     message |-> error.Message \o " (" \o error.Check \o ", see " \o LinkOf(error) \o ")",
     severity |-> toSeverity(error.Severity),
     source |-> "vale",
     code |-> error.Check]

toDiagnostic_CodeIsSource(error) ==
    [range |-> Range(error.Line - 1, error.Span[1] - 1, error.Line - 1, error.Span[2]),
     message |-> IF LinkOf(error) # ""
                 THEN error.Message \o " (" \o error.Check \o ", see " \o error.Link \o ")"
                 ELSE error.Message \o " (" \o error.Check \o ")",
     severity |-> toSeverity(error.Severity),
     source |-> "vale",
     code |-> "vale"]

\* toDiagnostic: the range, the message built by the template literal,
\* the severity, the source and the code of a finding.
toDiagnostic(error) ==
    [range |-> Range(error.Line - 1, error.Span[1] - 1, error.Line - 1, error.Span[2]),
     message |-> IF LinkOf(error) # ""
                 THEN error.Message \o " (" \o error.Check \o ", see " \o error.Link \o ")"
                 ELSE error.Message \o " (" \o error.Check \o ")",
     severity |-> toSeverity(error.Severity),
     source |-> "vale",
     code |-> error.Check]

\* Findings vale can report (IValeErrorJSON).
Finding1 == [Check |-> "vale.Editorializing", Line |-> 4, Span |-> <<2, 8>>,
             Link |-> "", Message |-> "Consider removing 'very'",
             Severity |-> "warning"]
Finding2 == [Check |-> "vale.Spelling", Line |-> 1, Span |-> <<1, 3>>,
             Link |-> "http://z", Message |-> "Did you really mean 'teh'?",
             Severity |-> "error"]
FindingLists == {<<Finding1>>, <<Finding2, Finding1>>}

\* The file paths vale may name in its output.
Paths == {fileName(d) : d \in Documents} \cup {FileC.fsPath}

\* What a vale run prints: text that is no JSON, or a JSON object that maps
\* file names to lists of findings (IValeJSON).
Malformed == [json |-> FALSE, value |-> [f \in {} |-> <<>>]]
Json(object) == [json |-> TRUE, value |-> object]
EmptyMap == [f \in {} |-> <<>>]

\* The outputs considered for a run on `paths`: no JSON, no findings, the
\* findings of one of the files, findings for all of them, and findings
\* filed under a path that was not asked for.
Stdouts(paths) ==
    {Malformed, Json(EmptyMap)}
    \cup {Json([f \in {p} |-> l]) : p \in {paths[i] : i \in DOMAIN paths}, l \in FindingLists}
    \cup {Json([f \in {paths[i] : i \in DOMAIN paths} |-> <<Finding1>>])}
    \cup {Json([f \in {CHOOSE p \in Paths : \A i \in DOMAIN paths : paths[i] # p} |->
                   <<Finding1>>])}

runValeParse_Reversed(stdout) ==
    IF ~stdout.json
    THEN [error |-> "SyntaxError", diagnostics |-> EmptyMap]
    ELSE [error |-> "none",
          diagnostics |-> [f \in DOMAIN stdout.value |->
              [i \in DOMAIN stdout.value[f] |->
                  toDiagnostic(stdout.value[f][Len(stdout.value[f]) + 1 - i])]]]

\* runVale after the subprocess has printed stdout: JSON.parse, then one
\* entry per own property, its findings converted in order.
runValeParse(stdout) ==
    IF ~stdout.json
    THEN [error |-> "SyntaxError", diagnostics |-> EmptyMap]
    ELSE [error |-> "none",
          diagnostics |-> [f \in DOMAIN stdout.value |->
              [i \in DOMAIN stdout.value[f] |-> toDiagnostic(stdout.value[f][i])]]]

\* ------------------------------------------------ the diagnostic store
\* DiagnosticCollection.delete(uri), .set(uri, diagnostics), .clear()
StoreDelete(s, uri) == [u \in DOMAIN s \ {uri} |-> s[u]]
StoreSet(s, uri, diagnostics) ==
    [u \in DOMAIN s \cup {uri} |-> IF u = uri THEN diagnostics ELSE s[u]]
StoreClear(s) == EmptyMap

\* result.forEach((d, fileName) => diagnostics.set(Uri.file(fileName), d)):
\* the keys of a Map are distinct, so the order of the calls does not matter.
StoreSetAll(s, result) ==
    [u \in DOMAIN s \cup {UriFile(f) : f \in DOMAIN result} |->
        IF \E f \in DOMAIN result : UriFile(f) = u
        THEN result[CHOOSE f \in DOMAIN result : UriFile(f) = u]
        ELSE s[u]]

\* ------------------------------------------------------ the environment
NotInstalled == <<>>
\* What the installed vale prints for --version in the behaviours checked.
Installs == {NotInstalled,
             <<VersionLine(V(0, 7, 2))>>,
             <<VersionLine(V(0, 7, 1))>>,
             <<<<W("usage:"), W("vale")>>>>}

\* A path of the file system as the code holds it in a string: absolute or
\* relative, and its segments.  NoPath is the empty string (and undefined):
\* the values that are false in a condition.  The segment
\* "${workspaceFolder}" stands for the placeholder of that name.
Path(absolute, segments) == [absolute |-> absolute, segments |-> segments]
NoPath == Path(FALSE, <<>>)
\* The bare command name: execFile looks it up on the PATH.
ValeOnPath == Path(FALSE, <<"vale">>)

\* The settings the documentation names, with their documented defaults:
\* vscode-vale.path (default `vale`) and vscode-vale.fileExtensions.
DefaultFileExtensions == <<"md", "markdown", "txt", "rst", "tex", "adoc", "asciidoc">>
Configuration(path, fileExtensions) == [path |-> path, fileExtensions |-> fileExtensions]
DefaultConfiguration == Configuration(ValeOnPath, DefaultFileExtensions)

\* configuration.get<string>("vscode-vale.path")
customBinaryPath == configuration.path

\* The segments with the first "${workspaceFolder}" replaced.
RECURSIVE replaceFirstPlaceholder(_, _)
replaceFirstPlaceholder(segments, fsPath) ==
    IF segments = <<>> THEN <<>>
    ELSE IF Head(segments) = "${workspaceFolder}" THEN fsPath \o Tail(segments)
    ELSE <<Head(segments)>> \o replaceFirstPlaceholder(Tail(segments), fsPath)

\* customBinaryPath.replace("${workspaceFolder}", fsPath): a string pattern
\* replaces its first occurrence only; fsPath is absolute, so a path that
\* starts with the placeholder becomes absolute.
replaceWorkspaceFolder(p, fsPath) ==
    Path(p.absolute \/ (p.segments # <<>> /\ Head(p.segments) = "${workspaceFolder}"),
         replaceFirstPlaceholder(p.segments, fsPath))

\* path.normalize on the segments: "." segments go and ".." takes the
\* segment before it; a ".." with nothing before it is dropped at the root
\* of an absolute path and kept in a relative one.
RECURSIVE normalizeOnto(_, _, _)
normalizeOnto(absolute, done, segments) ==
    IF segments = <<>> THEN done
    ELSE IF Head(segments) = "." THEN normalizeOnto(absolute, done, Tail(segments))
    ELSE IF Head(segments) = ".."
    THEN IF done # <<>> /\ done[Len(done)] # ".."
         THEN normalizeOnto(absolute, SubSeq(done, 1, Len(done) - 1), Tail(segments))
         ELSE IF absolute THEN normalizeOnto(absolute, done, Tail(segments))
         ELSE normalizeOnto(absolute, Append(done, ".."), Tail(segments))
    ELSE normalizeOnto(absolute, Append(done, Head(segments)), Tail(segments))
\* path.normalize: a relative path that normalizes to nothing is ".".
pathNormalize(p) ==
    LET segments == normalizeOnto(p.absolute, <<>>, p.segments)
    IN Path(p.absolute, IF ~p.absolute /\ segments = <<>> THEN <<".">> ELSE segments)

\* What which.sync("vale") finds on the PATH.
GlobalVale == Path(TRUE, <<"usr", "bin", "vale">>)

\* readBinaryLocation: the configured path inside a workspace folder, else
\* which.sync("vale"), which throws when vale is not on the PATH.
readBinaryLocation(workspaceFolder, vale) ==
    IF customBinaryPath # NoPath /\ workspaceFolder # NoFolder
    THEN [error |-> "none",
          binary |-> pathNormalize(replaceWorkspaceFolder(customBinaryPath,
                                                          workspaceFolder.fsPath))]
    ELSE IF vale = NotInstalled
    THEN [error |-> "WhichError", binary |-> NoPath]
    ELSE [error |-> "none", binary |-> GlobalVale]

\* The binary that the runs for a folder execute.
binaryOf(workspaceFolder) == readBinaryLocation(workspaceFolder, installed).binary
\* The binary is the vale of the PATH: the file which.sync found, or the
\* bare name that execFile looks up.
runsInstalledVale(binary) == binary \in {GlobalVale, ValeOnPath}

\* What the vale at a configured location prints for --version.
LocalInstall == <<VersionLine(V(0, 8, 0))>>
\* The standard output of `<binary> --version`.
versionStdout(binary) ==
    IF runsInstalledVale(binary) THEN installed ELSE LocalInstall

\* ------------------------------------------------------------ handlers
\* process.cwd(): the directory the host itself runs in.
ProcessCwd == <<"host">>

workingDirectory_ProcessCwd(folder) == ProcessCwd

\* const cwd = folder ? folder.uri.fsPath : process.cwd()
workingDirectory(folder) == IF folder # NoFolder THEN folder.fsPath ELSE ProcessCwd

\* A call the program makes: a subprocess (runInWorkspace with the folder
\* it is given, the directory it runs in, the binary and its path
\* arguments) or the file search of the host.
NoSpawn ==
    [kind |-> "none", cwd |-> NoFolder, directory |-> <<>>, binary |-> NoPath,
     options |-> <<>>, paths |-> <<>>]
\* The arguments before the paths: runVale's command is
\* [binaryLocation, "--no-exit", "--output", "JSON", ...args] and
\* getValeVersion's is [binaryLocation, "--version"].
runValeOptions_Exit == <<"--output", "JSON">>
runValeOptions == <<"--no-exit", "--output", "JSON">>
versionOptions == <<"--version">>
Spawn(kind, cwd, binary, paths) ==
    [kind |-> kind, cwd |-> cwd, directory |-> workingDirectory(cwd),
     binary |-> binary,
     options |-> IF kind = "lint" THEN runValeOptions
                 ELSE IF kind = "version" THEN versionOptions ELSE <<>>,
     paths |-> paths]

\* A suspended handler: where it waits and the locals it resumes with
\* (document; uris, the groups still to lint and results of a workspace run).
Task(kind, pc, document, groups, results) ==
    [kind |-> kind, pc |-> pc, id |-> 0, document |-> document, uris |-> <<>>,
     groups |-> groups, results |-> results]
\* One call of the per-document handler; id tells the calls in flight for
\* one document apart, a later call having the greater id.
DocTask(pc, document) == Task("doc", pc, document, <<>>, EmptyMap)
Call(id, task) == [task EXCEPT !.id = id]

Step(op, kind, document, outcome, error, notified, spawn, result) ==
    [op |-> op, kind |-> kind, id |-> 0, document |-> document, uris |-> <<>>,
     outcome |-> outcome, error |-> error, notified |-> notified,
     spawn |-> spawn, result |-> result]

\* The step was taken by the call `id` of the per-document handler.
By(id, step) == [step EXCEPT !.id = id]

Add(bag, t) == bag (+) SetToBag({t})
Remove(bag, t) == bag (-) SetToBag({t})

\* activate: an empty collection and the handlers registered; vale is
\* whatever the machine has.  No document is open yet: a document that is
\* already open is handed to the same handler as one that is opened.
Init ==
    /\ store = EmptyMap
    /\ dirty = {}
    /\ installed \in Installs
    /\ configuration = DefaultConfiguration
    /\ tasks = EmptyBag
    /\ queried = {}
    /\ last = Step("activate", "host", NoDocument, "none", "none", FALSE, NoSpawn, EmptyMap)
    /\ events = 0

\* The id of a new call for a document: one more than the ids of the calls
\* for it that are still suspended.
NextId(document) ==
    LET ids == {t.id : t \in {c \in BagToSet(tasks) : c.document = document}}
    IN IF ids = {} THEN 1 ELSE 1 + (CHOOSE i \in ids : \A j \in ids : j <= i)

\* lintDocumentToDiagnostics up to its first await: the eligibility check,
\* then checkValeVersionSatisfies -> getValeVersion, which resolves the
\* binary and starts `vale --version` in the directory of the process.
lintDocumentToDiagnostics(op, document) ==
    LET folder == getWorkspaceFolder(document.uri)
        location == readBinaryLocation(folder, installed)
    IN IF ~isElligibleDocument(document, document \in dirty')
       THEN /\ last' = By(NextId(document), Step(op, "doc", document, "noop", "none", FALSE,
                                        NoSpawn, EmptyMap))
            /\ UNCHANGED <<store, tasks, queried>>
       ELSE IF location.error # "none"
       THEN /\ last' = By(NextId(document), Step(op, "doc", document, "rejected", location.error,
                                        FALSE, NoSpawn, EmptyMap))
            /\ UNCHANGED <<store, tasks, queried>>
       ELSE /\ tasks' = Add(tasks, Call(NextId(document), DocTask("version", document)))
            /\ queried' = queried \cup {folder}
            /\ last' = By(NextId(document), Step(op, "doc", document, "spawned", "none", FALSE,
                                Spawn("version", NoFolder, location.binary, <<>>),
                                EmptyMap))
            /\ UNCHANGED store

\* workspace.onDidOpenTextDocument: the document is as the host has it.
OnDidOpenTextDocument(document) ==
    /\ events < MaxEvents
    /\ events' = events + 1
    /\ UNCHANGED <<dirty, installed, configuration>>
    /\ lintDocumentToDiagnostics("open", document)

OnDidSaveTextDocument_SuppressedByBatch(document, editedSince) ==
    /\ events < MaxEvents
    /\ events' = events + 1
    /\ dirty' = IF editedSince THEN dirty \cup {document} ELSE dirty \ {document}
    /\ UNCHANGED <<installed, configuration>>
    /\ IF \E t \in BagToSet(tasks) : t.kind = "batch"
       THEN /\ last' = Step("save", "doc", document, "noop", "none", FALSE, NoSpawn, EmptyMap)
            /\ UNCHANGED <<store, tasks, queried>>
       ELSE lintDocumentToDiagnostics("save", document)

\* workspace.onDidSaveTextDocument: the save has cleared isDirty, unless
\* the document was edited again before the handler runs.
OnDidSaveTextDocument(document, editedSince) ==
    /\ events < MaxEvents
    /\ events' = events + 1
    /\ dirty' = IF editedSince THEN dirty \cup {document} ELSE dirty \ {document}
    /\ UNCHANGED <<installed, configuration>>
    /\ lintDocumentToDiagnostics("save", document)

\* runInWorkspace's callback: execFile reports an error (the binary is gone
\* or cannot be executed, the buffer overflowed; the bare name `vale` is not
\* on the PATH) or the standard output.
execFileError(failed, binary) ==
    failed \/ (binary = ValeOnPath /\ installed = NotInstalled)

\* lintDocumentToDiagnostics resumed after `await checkValeVersionSatisfies`
\* (outside the try block): a failed check rejects the handler's promise;
\* a passed one runs runVale up to its await of the lint subprocess.
VersionQueryDone(t, failed, strict) ==
    LET folder == getWorkspaceFolder(t.document.uri)
        check == IF execFileError(failed, binaryOf(folder)) THEN "ProcessError"
                 ELSE checkValeVersionSatisfies(versionStdout(binaryOf(folder)), strict)
        location == readBinaryLocation(folder, installed)
    IN /\ BagIn(t, tasks) /\ t.kind = "doc" /\ t.pc = "version"
       /\ IF check # "none"
          THEN /\ tasks' = Remove(tasks, t)
               /\ last' = By(t.id, Step("versionDone", "doc", t.document, "rejected",
                                        check, FALSE, NoSpawn, EmptyMap))
               /\ UNCHANGED store
          ELSE IF location.error # "none"
          THEN /\ tasks' = Remove(tasks, t)
               /\ store' = StoreDelete(store, t.document.uri)
               /\ last' = By(t.id, Step("versionDone", "doc", t.document, "failed",
                                        location.error, TRUE, NoSpawn, EmptyMap))
          ELSE /\ tasks' = Add(Remove(tasks, t), Call(t.id, DocTask("lint", t.document)))
               /\ last' = By(t.id, Step("versionDone", "doc", t.document, "spawned",
                                        "none", FALSE,
                                        Spawn("lint", folder, location.binary,
                                              <<fileName(t.document)>>), EmptyMap))
               /\ UNCHANGED store
       /\ UNCHANGED <<dirty, installed, configuration, queried, events>>

publishDocument_NoDelete(s, document, result) == StoreSetAll(s, result)
publishDocument_Append(s, document, result) ==
    [u \in DOMAIN s \cup {UriFile(f) : f \in DOMAIN result} |->
        (IF u \in DOMAIN s THEN s[u] ELSE <<>>)
        \o (IF \E f \in DOMAIN result : UriFile(f) = u
            THEN result[CHOOSE f \in DOMAIN result : UriFile(f) = u] ELSE <<>>)]

publishDocument_FirstWins(s, document, result) ==
    IF document.uri \in DOMAIN s THEN s
    ELSE StoreSetAll(StoreDelete(s, document.uri), result)

publishDocument_DeleteLast(s, document, result) ==
    StoreDelete(StoreSetAll(s, result), document.uri)

\* The success path of the try block: delete the document's entry, then
\* set one entry per file of the result.
publishDocument(s, document, result) ==
    StoreSetAll(StoreDelete(s, document.uri), result)

failDocument_SetEmpty(s, document) == StoreSet(s, document.uri, <<>>)

\* The catch block: showErrorMessage, then delete the document's entry.
failDocument(s, document) == StoreDelete(s, document.uri)

LintDone_RechecksEligibility(t, failed, stdout) ==
    LET binary == binaryOf(getWorkspaceFolder(t.document.uri))
        parsed == IF execFileError(failed, binary)
                  THEN [error |-> "ProcessError", diagnostics |-> EmptyMap]
                  ELSE runValeParse(stdout)
    IN /\ BagIn(t, tasks) /\ t.kind = "doc" /\ t.pc = "lint"
       /\ tasks' = Remove(tasks, t)
       /\ IF parsed.error = "none"
          THEN /\ store' = IF isElligibleDocument(t.document, t.document \in dirty)
                           THEN publishDocument(store, t.document, parsed.diagnostics)
                           ELSE store
               /\ last' = By(t.id, Step("lintDone", "doc", t.document, "success", "none",
                                        FALSE, NoSpawn, parsed.diagnostics))
          ELSE /\ store' = failDocument(store, t.document)
               /\ last' = By(t.id, Step("lintDone", "doc", t.document, "failed",
                                        parsed.error, TRUE, NoSpawn, EmptyMap))
       /\ UNCHANGED <<dirty, installed, configuration, queried, events>>

LintDone_Retry(t, failed, stdout) ==
    LET binary == binaryOf(getWorkspaceFolder(t.document.uri))
        parsed == IF execFileError(failed, binary)
                  THEN [error |-> "ProcessError", diagnostics |-> EmptyMap]
                  ELSE runValeParse(stdout)
    IN /\ BagIn(t, tasks) /\ t.kind = "doc" /\ t.pc = "lint"
       /\ IF parsed.error = "none"
          THEN /\ tasks' = Remove(tasks, t)
               /\ store' = publishDocument(store, t.document, parsed.diagnostics)
               /\ last' = By(t.id, Step("lintDone", "doc", t.document, "success", "none",
                                        FALSE, NoSpawn, parsed.diagnostics))
          ELSE /\ tasks' = tasks
               /\ store' = failDocument(store, t.document)
               /\ last' = By(t.id, Step("lintDone", "doc", t.document, "failed",
                                        parsed.error, TRUE,
                                        Spawn("lint", getWorkspaceFolder(t.document.uri),
                                              GlobalVale, <<fileName(t.document)>>),
                                        EmptyMap))
       /\ UNCHANGED <<dirty, installed, configuration, queried, events>>

\* lintDocumentToDiagnostics resumed after `await runVale` inside the try.
LintDone(t, failed, stdout) ==
    LET binary == binaryOf(getWorkspaceFolder(t.document.uri))
        parsed == IF execFileError(failed, binary)
                  THEN [error |-> "ProcessError", diagnostics |-> EmptyMap]
                  ELSE runValeParse(stdout)
    IN /\ BagIn(t, tasks) /\ t.kind = "doc" /\ t.pc = "lint"
       /\ tasks' = Remove(tasks, t)
       /\ IF parsed.error = "none"
          THEN /\ store' = publishDocument(store, t.document, parsed.diagnostics)
               /\ last' = By(t.id, Step("lintDone", "doc", t.document, "success", "none",
                                        FALSE, NoSpawn, parsed.diagnostics))
          ELSE /\ store' = failDocument(store, t.document)
               /\ last' = By(t.id, Step("lintDone", "doc", t.document, "failed",
                                        parsed.error, TRUE, NoSpawn, EmptyMap))
       /\ UNCHANGED <<dirty, installed, configuration, queried, events>>

OnDidCloseTextDocument_Clear(document) ==
    /\ events < MaxEvents
    /\ events' = events + 1
    /\ store' = StoreClear(store)
    /\ last' = Step("close", "doc", document, "closed", "none", FALSE, NoSpawn, EmptyMap)
    /\ UNCHANGED <<dirty, installed, configuration, tasks, queried>>

\* workspace.onDidCloseTextDocument: (d) => diagnostics.delete(d.uri)
OnDidCloseTextDocument(document) ==
    /\ events < MaxEvents
    /\ events' = events + 1
    /\ store' = StoreDelete(store, document.uri)
    /\ last' = Step("close", "doc", document, "closed", "none", FALSE, NoSpawn, EmptyMap)
    /\ UNCHANGED <<dirty, installed, configuration, tasks, queried>>

\* The user edits a document: the host sets isDirty.
Edit(document) ==
    /\ events < MaxEvents
    /\ document \notin dirty
    /\ events' = events + 1
    /\ dirty' = dirty \cup {document}
    /\ last' = Step("edit", "host", document, "none", "none", FALSE, NoSpawn, EmptyMap)
    /\ UNCHANGED <<store, installed, configuration, tasks, queried>>

\* ------------------------------------------------- the workspace command
\* groupByWorkspace: byFolder is a Map from folder.index to paths, so the
\* groups come in the order in which their first uri was met; uris outside
\* every folder are skipped.
RECURSIVE byFolderOf(_, _)
byFolderOf(uris, acc) ==
    IF uris = <<>> THEN acc
    ELSE LET uri == Head(uris)
             folder == getWorkspaceFolder(uri)
             known == {i \in DOMAIN acc : acc[i].folder = folder}
         IN IF folder = NoFolder THEN byFolderOf(Tail(uris), acc)
            ELSE IF known = {}
            THEN byFolderOf(Tail(uris),
                     Append(acc, [folder |-> folder, filePaths |-> <<uri.fsPath>>]))
            ELSE byFolderOf(Tail(uris),
                     [acc EXCEPT ![CHOOSE i \in known : TRUE].filePaths =
                                     Append(@, uri.fsPath)])

groupByWorkspace_PerUri(uris) ==
    LET owned == SelectSeq(uris, LAMBDA u : getWorkspaceFolder(u) # NoFolder)
    IN [i \in DOMAIN owned |->
           [folder |-> getWorkspaceFolder(owned[i]), filePaths |-> <<owned[i].fsPath>>]]

groupByWorkspace_KeepUnowned(uris) ==
    LET unowned == SelectSeq(uris, LAMBDA u : getWorkspaceFolder(u) = NoFolder)
    IN byFolderOf(uris, <<>>)
       \o (IF unowned = <<>> THEN <<>>
           ELSE <<[folder |-> NoFolder,
                   filePaths |-> [i \in DOMAIN unowned |-> unowned[i].fsPath]]>>)

groupByWorkspace(uris) == byFolderOf(uris, <<>>)

\* What workspace.findFiles("**/*.{md,markdown,txt,rst,tex,adoc,asciidoc}")
\* may return: no file, a file outside every folder, the file of one
\* folder, files of both folders.
FoundFiles == {<<>>, <<FileX>>, <<DocA.uri>>, <<DocA.uri, FileC>>}

BatchTask(pc, uris, groups, results) ==
    [Task("batch", pc, NoDocument, groups, results) EXCEPT !.uris = uris]
\* A step of a workspace run, working on the enumerated uris.
BatchStep(op, uris, outcome, error, spawn, result) ==
    [Step(op, "batch", NoDocument, outcome, error, FALSE, spawn, result)
        EXCEPT !.uris = uris]

\* The extensions of the glob runValeOnWorkspace hands to findFiles.
extensions == <<"md", "markdown", "txt", "rst", "tex", "adoc", "asciidoc">>
findFilesPattern == Spawn("findFiles", NoFolder, NoPath, extensions)

LintWorkspaceCommand_ClearFirst ==
    /\ events < MaxEvents
    /\ events' = events + 1
    /\ tasks' = Add(tasks, BatchTask("findFiles", <<>>, <<>>, EmptyMap))
    /\ store' = StoreClear(store)
    /\ last' = BatchStep("command", <<>>, "spawned", "none", findFilesPattern, EmptyMap)
    /\ UNCHANGED <<dirty, installed, configuration, queried>>

\* vale.lintWorkspace: withProgress runs the callback, which awaits
\* runValeOnWorkspace, which awaits workspace.findFiles.
LintWorkspaceCommand ==
    /\ events < MaxEvents
    /\ events' = events + 1
    /\ tasks' = Add(tasks, BatchTask("findFiles", <<>>, <<>>, EmptyMap))
    /\ last' = BatchStep("command", <<>>, "spawned", "none", findFilesPattern, EmptyMap)
    /\ UNCHANGED <<store, dirty, installed, configuration, queried>>

publishWorkspace_NoClear(s, result) == StoreSetAll(s, result)
publishWorkspace_KeepsExisting(s, result) ==
    [u \in {UriFile(f) : f \in DOMAIN result} |->
        IF u \in DOMAIN s THEN s[u]
        ELSE result[CHOOSE f \in DOMAIN result : UriFile(f) = u]]

\* The command's callback once runValeOnWorkspace has returned:
\* diagnostics.clear(), then one set() per file of the result.
publishWorkspace(s, result) == StoreSetAll(StoreClear(s), result)

continueWorkspace_KeepsStoreWhenEmpty(t, op, uris, groups, results) ==
    IF groups = <<>>
    THEN /\ tasks' = Remove(tasks, t)
         /\ store' = IF results = EmptyMap THEN store ELSE publishWorkspace(store, results)
         /\ last' = BatchStep(op, uris, "success", "none", NoSpawn, results)
    ELSE LET location == readBinaryLocation(Head(groups).folder, installed)
         IN IF location.error # "none"
            THEN /\ tasks' = Remove(tasks, t)
                 /\ last' = BatchStep(op, uris, "rejected", location.error,
                                      NoSpawn, results)
                 /\ UNCHANGED store
            ELSE /\ tasks' = Add(Remove(tasks, t),
                                 BatchTask("runVale", uris, groups, results))
                 /\ last' = BatchStep(op, uris, "spawned", "none",
                                      Spawn("lint", Head(groups).folder, location.binary,
                                            Head(groups).filePaths), results)
                 /\ UNCHANGED store

\* runValeOnWorkspace with `groups` left to lint and `results` merged so
\* far: runVale on the first group up to its await, or the return to the
\* command's callback when no group is left.
continueWorkspace(t, op, uris, groups, results) ==
    IF groups = <<>>
    THEN /\ tasks' = Remove(tasks, t)
         /\ store' = publishWorkspace(store, results)
         /\ last' = BatchStep(op, uris, "success", "none", NoSpawn, results)
    ELSE LET location == readBinaryLocation(Head(groups).folder, installed)
         IN IF location.error # "none"
            THEN /\ tasks' = Remove(tasks, t)
                 /\ last' = BatchStep(op, uris, "rejected", location.error,
                                      NoSpawn, results)
                 /\ UNCHANGED store
            ELSE /\ tasks' = Add(Remove(tasks, t),
                                 BatchTask("runVale", uris, groups, results))
                 /\ last' = BatchStep(op, uris, "spawned", "none",
                                      Spawn("lint", Head(groups).folder, location.binary,
                                            Head(groups).filePaths), results)
                 /\ UNCHANGED store

\* runValeOnWorkspace resumed after `await workspace.findFiles(pattern)`.
FindFilesDone(t, failed, uris) ==
    /\ BagIn(t, tasks) /\ t.kind = "batch" /\ t.pc = "findFiles"
    /\ IF failed
       THEN /\ tasks' = Remove(tasks, t)
            /\ last' = BatchStep("findFilesDone", <<>>, "rejected", "FindFilesError",
                                 NoSpawn, EmptyMap)
            /\ UNCHANGED store
       ELSE continueWorkspace(t, "findFilesDone", uris, groupByWorkspace(uris), EmptyMap)
    /\ UNCHANGED <<dirty, installed, configuration, queried, events>>

\* for (const [filePath, errors] of folderResults) results.set(filePath, errors)
mergeResults(results, folderResults) ==
    [f \in DOMAIN results \cup DOMAIN folderResults |->
        IF f \in DOMAIN folderResults THEN folderResults[f] ELSE results[f]]

\* runValeOnWorkspace resumed after `await runVale(folder, filePaths)`: a
\* failure rejects the promise of the command (nothing catches it).
WorkspaceLintDone(t, failed, stdout) ==
    LET binary == binaryOf(Head(t.groups).folder)
        parsed == IF execFileError(failed, binary)
                  THEN [error |-> "ProcessError", diagnostics |-> EmptyMap]
                  ELSE runValeParse(stdout)
    IN /\ BagIn(t, tasks) /\ t.kind = "batch" /\ t.pc = "runVale"
       /\ IF parsed.error # "none"
          THEN /\ tasks' = Remove(tasks, t)
               /\ last' = BatchStep("workspaceLintDone", t.uris, "rejected",
                                    parsed.error, NoSpawn, t.results)
               /\ UNCHANGED store
          ELSE continueWorkspace(t, "workspaceLintDone", t.uris, Tail(t.groups),
                                 mergeResults(t.results, parsed.diagnostics))
       /\ UNCHANGED <<dirty, installed, configuration, queried, events>>

\* ---------------------------------------------------------------- system
TasksAt(kind, pc) == {t \in BagToSet(tasks) : t.kind = kind /\ t.pc = pc}

Next ==
    \/ \E d \in Documents : OnDidOpenTextDocument(d)
    \/ \E d \in Documents, editedSince \in BOOLEAN : OnDidSaveTextDocument(d, editedSince)
    \/ \E d \in Documents : OnDidCloseTextDocument(d)
    \/ \E d \in Documents : Edit(d)
    \/ LintWorkspaceCommand
    \/ \E t \in TasksAt("doc", "version"), failed \in BOOLEAN, strict \in BOOLEAN :
           VersionQueryDone(t, failed, strict)
    \/ \E t \in TasksAt("doc", "lint"), failed \in BOOLEAN :
           \E stdout \in (IF failed THEN {Malformed}
                           ELSE Stdouts(<<fileName(t.document)>>)) :
               LintDone(t, failed, stdout)
    \/ \E t \in TasksAt("batch", "findFiles"), failed \in BOOLEAN, uris \in FoundFiles :
           FindFilesDone(t, failed, uris)
    \/ \E t \in TasksAt("batch", "runVale"), failed \in BOOLEAN :
           \E stdout \in (IF failed THEN {Malformed}
                           ELSE Stdouts(Head(t.groups).filePaths)) :
               WorkspaceLintDone(t, failed, stdout)

Spec == Init /\ [][Next]_vars

\* ------------------------------------- the per-document handlers on their own
\* The open, save and close handlers and the completions of their
\* subprocesses, for a markdown file of the workspace and an untitled
\* editor, without the workspace command.
EditorDocuments == {DocA, DocU}

NextDocument ==
    \/ \E d \in EditorDocuments : OnDidOpenTextDocument(d)
    \/ \E d \in EditorDocuments, editedSince \in BOOLEAN :
           OnDidSaveTextDocument(d, editedSince)
    \/ \E d \in EditorDocuments : OnDidCloseTextDocument(d)
    \/ \E t \in TasksAt("doc", "version"), failed \in BOOLEAN, strict \in BOOLEAN :
           VersionQueryDone(t, failed, strict)
    \/ \E t \in TasksAt("doc", "lint"), failed \in BOOLEAN :
           \E stdout \in (IF failed THEN {Malformed}
                           ELSE Stdouts(<<fileName(t.document)>>)) :
               LintDone(t, failed, stdout)

SpecDocument == Init /\ [][NextDocument]_vars

\* Every subprocess that was started ends: its callback runs.
SubprocessesEnd ==
    /\ WF_vars(\E t \in TasksAt("doc", "version"), failed \in BOOLEAN, strict \in BOOLEAN :
                  VersionQueryDone(t, failed, strict))
    /\ WF_vars(\E t \in TasksAt("doc", "lint"), failed \in BOOLEAN :
                  \E stdout \in (IF failed THEN {Malformed}
                                  ELSE Stdouts(<<fileName(t.document)>>)) :
                      LintDone(t, failed, stdout))

SpecDocumentLive == SpecDocument /\ SubprocessesEnd

\* ------------------------------------------------ one vale run on its own
\* The findings converted: every line up to MaxLine, every span within
\* MaxColumn whose start is not after its end, each severity, with a link,
\* with an empty link and without the Link property.
Spans == {span \in (1..MaxColumn) \X (1..MaxColumn) : span[1] <= span[2]}
LinkedFindings ==
    [Check : {"X"}, Line : 1..MaxLine, Span : Spans, Link : {"", "http://z"},
     Message : {"Y"}, Severity : {"suggestion", "warning", "error"}]
UnlinkedFindings ==
    [Check : {"X"}, Line : 1..MaxLine, Span : Spans,
     Message : {"Y"}, Severity : {"suggestion", "warning", "error"}]
Findings == LinkedFindings \cup UnlinkedFindings

\* What vale prints in these runs: one finding for /r1/a.md, or one of the
\* outputs of the workspace model for a run on one file and on two.
ValeOutputs ==
    {Json([f \in {fileName(DocA)} |-> <<finding>>]) : finding \in Findings}
    \cup Stdouts(<<fileName(DocA)>>)
    \cup Stdouts(<<fileName(DocA), FileC.fsPath>>)

\* The option maxBuffer of execFile: the most bytes the subprocess may write
\* to its standard output, and to its standard error.
maxBuffer == 10 * 1024 * 1024

\* How a subprocess ends: it could not be started, or it ran, ended with an
\* exit code or by a signal (its code is then null, here -1), and wrote
\* stdoutLength bytes of standard output, `stdout`, and stderrLength bytes
\* of standard error.
ProcessResult(launched, code, signal, stdout, stdoutLength, stderrLength) ==
    [launched |-> launched, code |-> code, signal |-> signal, stdout |-> stdout,
     stdoutLength |-> stdoutLength, stderrLength |-> stderrLength]
ExitCodes == {0, 2}
NoSignal == "null"
Endings == {<<code, NoSignal>> : code \in ExitCodes} \cup {<<-1, "SIGTERM">>}
StdoutLengths == {1024, maxBuffer, maxBuffer + 1}
StderrLengths == {0, maxBuffer + 1}
Processes ==
    {ProcessResult(TRUE, ending[1], ending[2], stdout, stdoutLength, stderrLength) :
        ending \in Endings, stdout \in ValeOutputs,
        stdoutLength \in StdoutLengths, stderrLength \in StderrLengths}
    \cup {ProcessResult(FALSE, -1, NoSignal, Malformed, 0, 0)}

\* The `error` execFile passes to its callback: set when the process could
\* not be spawned, when it wrote more than maxBuffer bytes to one of its
\* streams, when a signal ended it and when it exited with a non-zero code.
execFileCallbackError(process) ==
    IF ~process.launched THEN "ENOENT"
    ELSE IF process.stdoutLength > maxBuffer \/ process.stderrLength > maxBuffer
         THEN "ERR_CHILD_PROCESS_STDIO_MAXBUFFER"
    ELSE IF process.signal # NoSignal THEN "Signal"
    ELSE IF process.code # 0 THEN "ExitCode"
    ELSE "none"

\* runInWorkspace's callback: if (error) reject(error) else resolve(stdout)
runInWorkspace(process) ==
    IF execFileCallbackError(process) # "none"
    THEN [error |-> "ProcessError", stdout |-> Malformed]
    ELSE [error |-> "none", stdout |-> process.stdout]

InitRunVale ==
    /\ store = EmptyMap
    /\ dirty = {}
    /\ installed = <<VersionLine(V(0, 7, 2))>>
    /\ configuration = DefaultConfiguration
    /\ tasks = EmptyBag
    /\ queried = {}
    /\ \E process \in Processes :
           last = Step("execFile", "host", NoDocument, "exited", "none", FALSE,
                       NoSpawn, process)
    /\ events = 0

\* The promise of runInWorkspace settles: last.result is the output.
RunInWorkspaceSettles ==
    /\ last.op = "execFile"
    /\ LET settled == runInWorkspace(last.result)
       IN last' = Step("runInWorkspace", "host", NoDocument,
                       IF settled.error = "none" THEN "resolved" ELSE "rejected",
                       settled.error, FALSE, NoSpawn, settled.stdout)
    /\ UNCHANGED <<store, dirty, installed, configuration, tasks, queried, events>>

\* runVale resumes with the output: last.result is what the parse gives.
RunValeParses ==
    /\ last.op = "runInWorkspace" /\ last.outcome = "resolved"
    /\ LET parsed == runValeParse(last.result)
       IN last' = Step("runVale", "host", NoDocument,
                       IF parsed.error = "none" THEN "success" ELSE "rejected",
                       parsed.error, FALSE, NoSpawn, parsed)
    /\ UNCHANGED <<store, dirty, installed, configuration, tasks, queried, events>>

NextRunVale == RunInWorkspaceSettles \/ RunValeParses

SpecRunVale == InitRunVale /\ [][NextRunVale]_vars

\* --------------------------------------------- the workspace run on its own
\* One run of the command on a machine with a current vale, for every
\* enumeration of up to MaxFiles of the files on disk and every setting of
\* vscode-vale.fileExtensions; vale reports findings for each file it is
\* given, or fails.
BatchUris == {DocA.uri, FileB, FileC, FileX}
GroupFiles ==
    {uris \in UNION {[1..n -> BatchUris] : n \in 0..MaxFiles} :
        \A i, j \in DOMAIN uris : uris[i] = uris[j] => i = j}
FullStdouts(paths) ==
    {Json([f \in {paths[i] : i \in DOMAIN paths} |-> l]) : l \in FindingLists}
Configurations ==
    {DefaultConfiguration, Configuration(ValeOnPath, <<"md">>),
     Configuration(ValeOnPath, <<"md", "org">>)}

InitBatch ==
    /\ store = EmptyMap
    /\ dirty = {}
    /\ installed = <<VersionLine(V(0, 7, 2))>>
    /\ configuration \in Configurations
    /\ tasks = EmptyBag
    /\ queried = {}
    /\ last = Step("activate", "host", NoDocument, "none", "none", FALSE, NoSpawn, EmptyMap)
    /\ events = 0

NextBatch ==
    \/ events = 0 /\ LintWorkspaceCommand
    \/ \E t \in TasksAt("batch", "findFiles"), failed \in BOOLEAN, uris \in GroupFiles :
           FindFilesDone(t, failed, uris)
    \/ \E t \in TasksAt("batch", "runVale"), failed \in BOOLEAN :
           \E stdout \in (IF failed THEN {Malformed}
                           ELSE FullStdouts(Head(t.groups).filePaths)) :
               WorkspaceLintDone(t, failed, stdout)

SpecBatch == InitBatch /\ [][NextBatch]_vars

\* ------------------------------------------ the choice of the executable
\* The handlers and the workspace command under each way of setting
\* vscode-vale.path (the default, the empty string, an absolute path, paths
\* inside and above the workspace folder), for a document inside a
\* workspace folder and one outside, with and without a vale on the PATH.
BinaryPaths ==
    {ValeOnPath, NoPath,
     Path(TRUE, <<"opt", "vale">>),
     Path(FALSE, <<"${workspaceFolder}", ".", "bin", "vale">>),
     Path(FALSE, <<"${workspaceFolder}", "..", "..", "bin", "vale">>)}
BinaryConfigurations == {Configuration(p, DefaultFileExtensions) : p \in BinaryPaths}
BinaryDocuments == {DocA, DocX}

InitBinary ==
    /\ store = EmptyMap
    /\ dirty = {}
    /\ installed \in {NotInstalled, <<VersionLine(V(0, 7, 2))>>}
    /\ configuration \in BinaryConfigurations
    /\ tasks = EmptyBag
    /\ queried = {}
    /\ last = Step("activate", "host", NoDocument, "none", "none", FALSE, NoSpawn, EmptyMap)
    /\ events = 0

NextBinary ==
    \/ \E d \in BinaryDocuments : OnDidOpenTextDocument(d)
    \/ LintWorkspaceCommand
    \/ \E t \in TasksAt("doc", "version"), failed \in BOOLEAN, strict \in BOOLEAN :
           VersionQueryDone(t, failed, strict)
    \/ \E t \in TasksAt("doc", "lint"), failed \in BOOLEAN :
           \E stdout \in (IF failed THEN {Malformed} ELSE {Json(EmptyMap)}) :
               LintDone(t, failed, stdout)
    \/ \E t \in TasksAt("batch", "findFiles"), failed \in BOOLEAN, uris \in FoundFiles :
           FindFilesDone(t, failed, uris)
    \/ \E t \in TasksAt("batch", "runVale"), failed \in BOOLEAN :
           \E stdout \in (IF failed THEN {Malformed} ELSE {Json(EmptyMap)}) :
               WorkspaceLintDone(t, failed, stdout)

SpecBinary == InitBinary /\ [][NextBinary]_vars

\* ------------------------------------------- activation with open documents
\* activate() in a window that already has documents open: startLinting
\* hands each of workspace.textDocuments to the handler, and the
\* subprocesses of those calls complete.  No document is opened or saved
\* afterwards.
DocC == [uri |-> FileC, languageId |-> "markdown"]
ActivationDocuments == {DocA, DocC, DocU}
\* workspace.textDocuments: the open documents, each once.
TextDocuments ==
    {docs \in UNION {[1..n -> ActivationDocuments] : n \in 0..3} :
        \A i, j \in DOMAIN docs : docs[i] = docs[j] => i = j}

\* workspace.textDocuments.forEach(lintDocumentToDiagnostics(diagnostics)):
\* each call runs up to its first await before the next one starts; `acc`
\* is the suspended calls and the folders queried so far.
RECURSIVE forEachTextDocument(_, _)
forEachTextDocument(docs, acc) ==
    IF docs = <<>> THEN acc
    ELSE LET document == Head(docs)
             folder == getWorkspaceFolder(document.uri)
             location == readBinaryLocation(folder, installed)
             ids == {t.id : t \in {c \in BagToSet(acc.tasks) : c.document = document}}
             id == IF ids = {} THEN 1 ELSE 1 + (CHOOSE i \in ids : \A j \in ids : j <= i)
         IN forEachTextDocument(Tail(docs),
                IF isElligibleDocument(document, document \in dirty)
                   /\ location.error = "none"
                THEN [tasks |-> Add(acc.tasks, Call(id, DocTask("version", document))),
                      queried |-> acc.queried \cup {folder}]
                ELSE acc)

InitActivate ==
    /\ store = EmptyMap
    /\ dirty \in SUBSET {DocA, DocC}
    /\ installed \in Installs
    /\ configuration = DefaultConfiguration
    /\ tasks = EmptyBag
    /\ queried = {}
    /\ last = Step("load", "host", NoDocument, "none", "none", FALSE, NoSpawn, EmptyMap)
    /\ events = 0

Activate_RegistersOnly(textDocuments) ==
    /\ last.op = "load"
    /\ last' = [Step("activate", "host", NoDocument, "none", "none", FALSE, NoSpawn,
                     EmptyMap)
                    EXCEPT !.uris = [i \in DOMAIN textDocuments |-> textDocuments[i].uri]]
    /\ UNCHANGED <<store, dirty, installed, configuration, tasks, queried, events>>

\* activate -> startLinting: the handlers are registered and the documents
\* that are open are linted; last.uris is workspace.textDocuments.
Activate(textDocuments) ==
    /\ last.op = "load"
    /\ LET started == forEachTextDocument(textDocuments,
                                          [tasks |-> tasks, queried |-> queried])
       IN /\ tasks' = started.tasks
          /\ queried' = started.queried
    /\ last' = [Step("activate", "host", NoDocument, "none", "none", FALSE, NoSpawn,
                     EmptyMap)
                    EXCEPT !.uris = [i \in DOMAIN textDocuments |-> textDocuments[i].uri]]
    /\ UNCHANGED <<store, dirty, installed, configuration, events>>

NextActivate ==
    \/ \E textDocuments \in TextDocuments : Activate(textDocuments)
    \/ \E t \in TasksAt("doc", "version"), failed \in BOOLEAN, strict \in BOOLEAN :
           VersionQueryDone(t, failed, strict)
    \/ \E t \in TasksAt("doc", "lint"), failed \in BOOLEAN :
           \E stdout \in (IF failed THEN {Malformed}
                           ELSE Stdouts(<<fileName(t.document)>>)) :
               LintDone(t, failed, stdout)

SpecActivate == InitActivate /\ [][NextActivate]_vars

\* ------------------------------------------- the version check on its own
\* What `vale --version` may print: one version line, or a version line
\* after a line of other text, or no version line at all.
VersionWords ==
    {V(a, b, c) : a \in 0..1, b \in 6..8, c \in 0..3}
    \cup {VPre(0, 8, 0), W("master"), W("nightly")}
VersionOutputs ==
    {<<VersionLine(w)>> : w \in VersionWords}
    \cup {<< <<W("vale"), W("is"), W("ready")>>, VersionLine(w) >> : w \in VersionWords}
    \cup {<< <<W("usage:"), W("vale")>> >>, << <<W("vale"), W("version")>> >>}

InitVersion ==
    /\ store = EmptyMap
    /\ dirty = {}
    /\ installed \in VersionOutputs
    /\ configuration = DefaultConfiguration
    /\ tasks = EmptyBag
    /\ queried = {}
    /\ last = Step("activate", "host", NoDocument, "none", "none", FALSE, NoSpawn, EmptyMap)
    /\ events = 0

\* One call of the handler for /r1/a.md: checkValeVersionSatisfies starts
\* the query and is suspended until the subprocess has ended.
NextVersion ==
    \/ events = 0 /\ OnDidOpenTextDocument(DocA)
    \/ \E t \in TasksAt("doc", "version"), failed \in BOOLEAN, strict \in BOOLEAN :
           VersionQueryDone(t, failed, strict)

SpecVersion == InitVersion /\ [][NextVersion]_vars

\* ================================================================ claims
HandlerStarted == last.op \in {"open", "save"}
Entry(document) == document.uri \in DOMAIN store
\* The document is in a format the documentation names as supported.
Supported(document) == document.languageId \in RecognizedLanguages

\* C1 (clean-file property): when a per-document lint of d completes
\* successfully and the linter output has no key for d, the store has no
\* entry for d when the handler finishes.
C1_CleanFileDeleted ==
    (/\ last.op = "lintDone" /\ last.outcome = "success"
     /\ fileName(last.document) \notin DOMAIN last.result)
    => ~Entry(last.document)

\* A successful lint whose output names another file only: that file's
\* entry is written, the document's own entry is absent.
C1_Witness ==
    /\ last.op = "lintDone" /\ last.outcome = "success"
    /\ fileName(last.document) \notin DOMAIN last.result
    /\ last.result # EmptyMap
    /\ events >= 2

\* C2: however a per-document lint of an eligible document fails, the
\* store has no entry for the document once the handler has ended.
C2_FailureClearsDocument ==
    (/\ last.kind = "doc" /\ last.outcome \in {"rejected", "failed"}
     /\ Supported(last.document))
    => ~Entry(last.document)

\* C3: a step of a workspace run other than its successful return leaves
\* the store as it is, so a run that fails has performed no clear() and no
\* set(), also when groups before the failing one had succeeded.
C3_FailedWorkspaceRunKeepsStore ==
    [][(last'.kind = "batch" /\ last'.outcome # "success") => store' = store]_vars

\* A workspace run rejected after an earlier group had been merged, with
\* entries in the store.
C3_Witness ==
    /\ last.kind = "batch" /\ last.outcome = "rejected"
    /\ last.result # EmptyMap
    /\ store # EmptyMap

\* C4: every failure inside a per-document lint or a workspace run is
\* caught by the operation and shown to the user; none leaves the handler
\* as a rejected promise.
C4_FailuresCaughtAndNotified ==
    (last.error # "none" /\ (last.kind = "doc" => Supported(last.document)))
    => (last.notified /\ last.outcome # "rejected")

\* C5: a lint of d still in flight when d is closed does not re-create
\* d's entry when it completes: after a close of d, the completion of a
\* lint of d leaves d without an entry.
C5_NoEntryAfterClose ==
    [][(/\ last.op = "close" /\ last'.op = "lintDone"
        /\ last'.document = last.document /\ Supported(last.document))
       => last.document.uri \notin DOMAIN store']_vars

\* C6: the version query is started at most once per project root: an
\* event never starts a version query for a folder that has had one.
C6_VersionQueriedOncePerRoot ==
    [][(/\ events' # events /\ last'.spawn.kind = "version"
        /\ getWorkspaceFolder(last'.document.uri) \in Folders)
       => getWorkspaceFolder(last'.document.uri) \notin queried]_vars

\* The version gate passes on what the installed vale prints.
GatePasses ==
    /\ installed # NotInstalled
    /\ \E strict \in BOOLEAN : checkValeVersionSatisfies(installed, strict) = "none"

\* C7: while the installed vale fails the version gate, no lint invocation
\* is started and no store entry is written, by the per-document handler
\* or by the workspace run.
C7_FailingGateBlocksLinting ==
    (last.spawn.kind = "lint" \/ (last.outcome = "success" /\ last.result # EmptyMap))
    => GatePasses

\* C8: a version satisfying >= 0.7.2 passes the gate, "master" passes, a
\* lower version fails with the incompatible-version error, and output
\* without a version line fails with the version-parse error.
C8_VersionGateOutcome ==
    (last.op = "versionDone" /\ last.error # "ProcessError") =>
        LET token == matchVersion(installed)
        IN /\ token = NoMatch => last.error = "VersionParseError"
           /\ token = <<W("master")>> => last.error = "none"
           /\ (semverValid(token) /\ ~token[1].prerelease) =>
                  last.error = (IF semverCompare(token[1].version, <<0, 7, 2>>) >= 0
                                THEN "none" ELSE "IncompatibleVersionError")

\* C9: an open or save event for a document whose dirty flag is set when
\* the handler runs starts no subprocess and leaves the store unchanged.
C9_DirtyDocumentNotLinted ==
    [][(/\ events' # events /\ last'.op \in {"open", "save"}
        /\ last'.document \in dirty')
       => (store' = store /\ tasks' = tasks /\ last'.spawn = NoSpawn)]_vars

\* An event for a dirty document that has a published entry.
C9_Witness ==
    /\ HandlerStarted /\ last.document \in dirty
    /\ Entry(last.document)

\* C10: a document is linted iff it has no unsaved changes and its
\* language is one of the recognized text formats.
C10_EligibleIffCleanAndRecognized ==
    HandlerStarted =>
        ((last.outcome # "noop") <=>
            (last.document \notin dirty
             /\ last.document.languageId \in RecognizedLanguages))

\* The paths of the uris that a folder owns, in the order of the enumeration.
OwnedPaths(uris, folder) ==
    LET owned == SelectSeq(uris, LAMBDA u : getWorkspaceFolder(u) = folder)
    IN [i \in DOMAIN owned |-> owned[i].fsPath]
OwningRoots(uris) == {getWorkspaceFolder(uris[i]) : i \in DOMAIN uris} \ {NoFolder}
BatchLintStarted == last.kind = "batch" /\ last.spawn.kind = "lint"
BatchSucceeded == last.kind = "batch" /\ last.outcome = "success"

\* C11 (batch grouping): every invocation of a workspace run is for a root
\* that owns an enumerated file, receives exactly the files of that root in
\* enumeration order, and is the first for that root (none of its files has
\* a result yet); a run that succeeds has a result for every owned file, so
\* every owning root was invoked exactly once; [/r1/a.md, /r1/b.md,
\* /r2/c.md] gives a merged result of 3 keys.
C11_BatchGrouping ==
    /\ BatchLintStarted =>
          /\ last.spawn.cwd \in OwningRoots(last.uris)
          /\ last.spawn.paths = OwnedPaths(last.uris, last.spawn.cwd)
          /\ \A i \in DOMAIN last.spawn.paths :
                 last.spawn.paths[i] \notin DOMAIN last.result
    /\ BatchSucceeded =>
          DOMAIN last.result =
              UNION {{OwnedPaths(last.uris, f)[i] : i \in DOMAIN OwnedPaths(last.uris, f)} :
                        f \in OwningRoots(last.uris)}
    /\ (BatchSucceeded /\ last.uris = <<DocA.uri, FileB, FileC>>) =>
          Cardinality(DOMAIN last.result) = 3

\* The run on [/r1/a.md, /r1/b.md, /r2/c.md] has succeeded with 3 keys.
C11_Witness ==
    /\ BatchSucceeded /\ last.uris = <<DocA.uri, FileB, FileC>>
    /\ DOMAIN last.result = {DocA.uri.fsPath, FileB.fsPath, FileC.fsPath}
    /\ DOMAIN store = {DocA.uri, FileB, FileC}

\* The store that holds exactly the entries of a result.
ResultStore(result) == StoreSetAll(EmptyMap, result)

\* C12: the step in which a workspace run succeeds leaves the store equal
\* to the merged result, whatever it held before; clear() and every set()
\* happen in that one step, so no handler runs between them.
C12_WorkspaceRunReplacesStore ==
    [][(last'.kind = "batch" /\ last'.outcome = "success")
       => store' = ResultStore(last'.result)]_vars

\* A workspace run has published a result without an entry for /r1/a.md
\* after other events, while another handler is suspended.
C12_Witness ==
    /\ BatchSucceeded /\ last.result # EmptyMap
    /\ events >= 2 /\ tasks # EmptyBag
    /\ DOMAIN store = {FileC}

\* C13 (idempotence): after a successful lint of a document, a second lint
\* of it with an identical result leaves the store as it is: the steps of
\* the second handler before its completion do not touch the store, and
\* its completion publishes into a store that publishing does not change.
C13_RelintIdempotent ==
    /\ [](last.op = "lintDone" /\ last.outcome = "success"
            => publishDocument(store, last.document, last.result) = store)
    /\ [][(last'.kind = "doc" /\ last'.outcome = "spawned") => store' = store]_vars

\* A lint of /r1/a.md has published findings for it, after an earlier
\* event, and the store holds an entry of another file too.
C13_Witness ==
    /\ last.op = "lintDone" /\ last.outcome = "success"
    /\ last.document = DocA /\ fileName(DocA) \in DOMAIN last.result
    /\ events >= 2 /\ Cardinality(DOMAIN store) >= 2

\* The step in which runVale converts the findings of its output.
Converts == last.op = "runInWorkspace" /\ last'.op = "runVale" /\ last'.outcome = "success"
Converted(P(_, _)) ==
    \A f \in DOMAIN last.result.value : \A i \in DOMAIN last.result.value[f] :
        P(last.result.value[f][i], last'.result.diagnostics[f][i])

\* C14: the range of the diagnostic of a finding starts at (Line-1,
\* Span[0]-1) and ends at (Line-1, Span[1]); Line 4, Span [2,8] gives
\* (3,1)-(3,8).
C14_RangeOfFinding ==
    [][Converts => Converted(LAMBDA error, diagnostic :
            /\ diagnostic.range.start = <<error.Line - 1, error.Span[1] - 1>>
            /\ diagnostic.range.end = <<error.Line - 1, error.Span[2]>>
            /\ (error.Line = 4 /\ error.Span = <<2, 8>>) =>
                   diagnostic.range = [start |-> <<3, 1>>, end |-> <<3, 8>>])]_vars

\* A finding at line 4, span [2,8] was converted to the range (3,1)-(3,8).
C14_Witness ==
    /\ last.op = "runVale" /\ last.outcome = "success"
    /\ \E f \in DOMAIN last.result.diagnostics :
           \E i \in DOMAIN last.result.diagnostics[f] :
               last.result.diagnostics[f][i].range =
                   [start |-> <<3, 1>>, end |-> <<3, 8>>]

\* C15: suggestion is converted to Information, warning to Warning, error
\* to Error: a tier for each of the three severities, the same one
\* whenever the severity is the same.
C15_SeverityMapping ==
    [][Converts => Converted(LAMBDA error, diagnostic :
            /\ error.Severity = "suggestion" => diagnostic.severity = "Information"
            /\ error.Severity = "warning" => diagnostic.severity = "Warning"
            /\ error.Severity = "error" => diagnostic.severity = "Error"
            /\ diagnostic.severity \in {"Information", "Warning", "Error"})]_vars

\* A finding of severity warning was converted.
C15_Witness ==
    /\ last.op = "runVale" /\ last.outcome = "success"
    /\ \E f \in DOMAIN last.result.diagnostics :
           \E i \in DOMAIN last.result.diagnostics[f] :
               last.result.diagnostics[f][i].severity = "Warning"

\* C16: the message is "<Message> (<Check>, see <Link>)" for a finding
\* with a non-empty Link and "<Message> (<Check>)" for one whose Link is
\* empty or absent; Check X, Message Y give "Y (X)" and, with Link
\* http://z, "Y (X, see http://z)".
C16_MessageOfFinding ==
    [][Converts => Converted(LAMBDA error, diagnostic :
            IF "Link" \in DOMAIN error /\ error.Link # ""
            THEN /\ diagnostic.message =
                      error.Message \o " (" \o error.Check \o ", see " \o error.Link \o ")"
                 /\ (error.Check = "X" /\ error.Message = "Y" /\ error.Link = "http://z")
                        => diagnostic.message = "Y (X, see http://z)"
            ELSE /\ diagnostic.message = error.Message \o " (" \o error.Check \o ")"
                 /\ (error.Check = "X" /\ error.Message = "Y")
                        => diagnostic.message = "Y (X)")]_vars

\* A finding without a link was converted to the message "Y (X)".
C16_Witness ==
    /\ last.op = "runVale" /\ last.outcome = "success"
    /\ \E f \in DOMAIN last.result.diagnostics :
           \E i \in DOMAIN last.result.diagnostics[f] :
               last.result.diagnostics[f][i].message = "Y (X)"

\* The findings of the workspace model.
ReportedFindings == UNION {{l[i] : i \in DOMAIN l} : l \in FindingLists}

\* C17: every diagnostic in the store has the source "vale" and is the
\* diagnostic of a reported finding whose Check is its code.
C17_SourceAndCodeOfStored ==
    \A u \in DOMAIN store : \A i \in DOMAIN store[u] :
        /\ store[u][i].source = "vale"
        /\ \E finding \in ReportedFindings :
               /\ store[u][i].range = toDiagnostic(finding).range
               /\ store[u][i].message = toDiagnostic(finding).message
               /\ store[u][i].code = finding.Check

\* The store holds two diagnostics of different rules for one file.
C17_Witness ==
    \E u \in DOMAIN store :
        /\ Len(store[u]) = 2
        /\ store[u][1].code = "vale.Spelling"
        /\ store[u][2].code = "vale.Editorializing"

\* C18: runInWorkspace resolves with the standard output whenever the
\* process was started, whatever its exit code, and rejects with a process
\* error only when the process could not be started.
C18_NonZeroExitIsNoError ==
    [][(last.op = "execFile" /\ last'.op = "runInWorkspace") =>
          IF last.result.launched
          THEN last'.outcome = "resolved" /\ last'.result = last.result.stdout
          ELSE last'.outcome = "rejected" /\ last'.error = "ProcessError"]_vars

\* The installed vale prints a version below 0.7.2.
TooOld ==
    /\ semverValid(matchVersion(installed))
    /\ semverCompare(matchVersion(installed)[1].version, <<0, 7, 2>>) < 0

\* C19: with a vale that is too old the extension is not active: no open,
\* save or close handler and no lint-workspace command ever runs.
C19_OldValeNotActivated ==
    TooOld => last.op \notin {"open", "save", "close", "command"}

\* C20: the extensions of the files a workspace run asks the host for are
\* the configured vscode-vale.fileExtensions.
C20_ConfiguredExtensionsEnumerated ==
    last.spawn.kind = "findFiles" => last.spawn.paths = configuration.fileExtensions

\* C21: a lint subprocess runs in the directory of the workspace folder
\* that owns the files it lints; a document without an owning folder is
\* linted in the directory of the host process.
C21_LintRunsInOwningRoot ==
    last.spawn.kind = "lint" =>
        IF last.kind = "doc"
        THEN IF \E i \in DOMAIN workspaceFolders :
                    IsPrefix(workspaceFolders[i], fileName(last.document))
             THEN /\ IsPrefix(last.spawn.directory, fileName(last.document))
                  /\ \E i \in DOMAIN workspaceFolders :
                         last.spawn.directory = workspaceFolders[i]
             ELSE last.spawn.directory = ProcessCwd
        ELSE /\ \E i \in DOMAIN workspaceFolders :
                    last.spawn.directory = workspaceFolders[i]
             /\ \A k \in DOMAIN last.spawn.paths :
                    IsPrefix(last.spawn.directory, last.spawn.paths[k])

\* The second invocation of a workspace run was started in /r2 for
\* /r2/c.md, after the first one had reported on /r1/a.md.
C21_Witness ==
    /\ last.kind = "batch" /\ last.spawn.kind = "lint"
    /\ last.spawn.directory = <<"r2">> /\ last.spawn.paths = <<FileC.fsPath>>
    /\ last.result # EmptyMap

\* A call of the per-document handler for an eligible document has begun.
HandlerCalled(document, id) ==
    /\ last.op \in {"open", "save"} /\ last.outcome # "noop"
    /\ last.document = document /\ last.id = id
\* The call has ended in Success or in Failed.
HandlerSettled(document, id) ==
    /\ last.kind = "doc" /\ last.document = document /\ last.id = id
    /\ \/ last.op = "lintDone" /\ last.outcome = "success"
       \/ last.outcome = "failed" /\ last.notified /\ ~Entry(document)

\* C22: if every started subprocess ends, every call of the handler for an
\* eligible document ends in Success (its result published) or in Failed
\* (the error notified and the document's entry deleted).
C22_HandlerEndsInSuccessOrFailed ==
    \A id \in 1..MaxEvents :
        HandlerCalled(DocA, id) ~> HandlerSettled(DocA, id)

\* A call for a document completes its lint successfully in this step.
LintSucceeds == last'.op = "lintDone" /\ last'.outcome = "success"
\* The uris a result has diagnostics for.
ResultUris(result) == {UriFile(f) : f \in DOMAIN result}

\* C23 (delete-before-write): the step in which a lint of d succeeds takes
\* the store to the one that results from delete(d) followed by the set()
\* of each file of the result, and nothing else: d has the new diagnostics
\* if the result has any for d and no entry otherwise, and every entry the
\* result does not name is as before.
C23_DeleteThenSetInOneStep ==
    [][LintSucceeds =>
          LET d == last'.document.uri
              result == last'.result
          IN /\ DOMAIN store' = (DOMAIN store \ {d}) \cup ResultUris(result)
             /\ \A f \in DOMAIN result : store'[UriFile(f)] = result[f]
             /\ \A u \in DOMAIN store' \ ResultUris(result) : store'[u] = store[u]]_vars

\* A lint of /r1/a.md has replaced its entry while another call of the
\* handler is suspended.
C23_Witness ==
    /\ last.op = "lintDone" /\ last.outcome = "success" /\ last.document = DocA
    /\ Entry(DocA) /\ store[DocA.uri] = last.result[fileName(DocA)]
    /\ tasks # EmptyBag

\* C24: a lint of d changes no entry but the one of d, whatever files the
\* output of vale names.
C24_OnlyOwnEntryWritten ==
    [][(last'.op = "lintDone" /\ Supported(last'.document)) =>
          \A u \in (DOMAIN store \cup DOMAIN store') \ {last'.document.uri} :
              /\ u \in DOMAIN store /\ u \in DOMAIN store'
              /\ store'[u] = store[u]]_vars

\* The entry of a document is what a completed lint of it leaves: the
\* diagnostics of the result for it, or no entry.
EntryIs(s, document, result) ==
    IF fileName(document) \in DOMAIN result
    THEN document.uri \in DOMAIN s /\ s[document.uri] = result[fileName(document)]
    ELSE document.uri \notin DOMAIN s

\* C25 (same-file race): whenever a lint of d completes, d's entry becomes
\* the result of that run, whatever call it belongs to; so when the run of
\* an earlier save completes after the run of a later save, the entry is
\* the result of the earlier save.
C25_LastCompletedRunWins ==
    [][(last'.op = "lintDone" /\ last'.document = DocA) =>
          EntryIs(store', DocA, last'.result)]_vars

\* The run of the later call for /r1/a.md has completed and published
\* findings, the run of the earlier call is still in flight.
C25_Witness ==
    /\ last.op = "lintDone" /\ last.outcome = "success" /\ last.document = DocA
    /\ last.id = 2 /\ Entry(DocA)
    /\ \E t \in BagToSet(tasks) : t.document = DocA /\ t.id = 1 /\ t.pc = "lint"

BatchInFlight(bag) == \E t \in BagToSet(bag) : t.kind = "batch"

\* C26 (workspace run against per-document lints): while a workspace run is
\* in flight an open or save event of a clean document starts its handler
\* as usual and a completing lint writes its entries; the step in which the
\* run succeeds leaves exactly the result of the run in the store (the files
\* of the result, each with the diagnostics the run has for it, whatever a
\* lint had written for it before); a lint that completes right after it
\* replaces the run's entry for its document.
C26_WorkspaceRunOverwritesAndIsOverwritten ==
    [][/\ (/\ BatchInFlight(tasks) /\ last'.op \in {"open", "save"}
            /\ last'.document \notin dirty')
           => last'.outcome # "noop"
       /\ (BatchInFlight(tasks) /\ LintSucceeds)
           => EntryIs(store', last'.document, last'.result)
       /\ (last'.kind = "batch" /\ last'.outcome = "success")
           => /\ DOMAIN store' = ResultUris(last'.result)
              /\ \A f \in DOMAIN last'.result :
                     store'[UriFile(f)] = last'.result[f]
       /\ (last.kind = "batch" /\ last.outcome = "success" /\ LintSucceeds)
           => /\ EntryIs(store', last'.document, last'.result)
              /\ \A u \in ResultUris(last.result) \ ResultUris(last'.result) :
                     u # last'.document.uri => store'[u] = store[u]]_vars

\* A workspace run has republished: the store holds its result, with an
\* entry for /r1/a.md, while a handler for /r1/a.md that was started
\* meanwhile still waits for its vale and will complete after it.
C26_Witness ==
    /\ BatchSucceeded /\ Entry(DocA)
    /\ \A f \in DOMAIN last.result : store[UriFile(f)] = last.result[f]
    /\ DOMAIN store = ResultUris(last.result)
    /\ \E t \in BagToSet(tasks) : t.kind = "doc" /\ t.pc = "lint" /\ t.document = DocA

\* C27: an open or save event for a document that is ineligible when the
\* handler runs (it is dirty, or is not a file, or its format is not a
\* recognized one) does nothing: no subprocess, no suspended call, no
\* notification, and the store as it was.
C27_IneligibleEventIsNoOp ==
    [][(/\ events' # events /\ last'.op \in {"open", "save"}
        /\ \/ last'.document \in dirty'
           \/ last'.document.uri.scheme # "file"
           \/ last'.document.languageId \notin RecognizedLanguages)
       => /\ store' = store /\ tasks' = tasks /\ queried' = queried
          /\ last'.spawn = NoSpawn /\ ~last'.notified /\ last'.error = "none"]_vars

\* What the installed vale prints satisfies >= 0.7.2 or is "master".
VersionOk ==
    LET token == IF installed = NotInstalled THEN NoMatch ELSE matchVersion(installed)
    IN \/ token = <<W("master")>>
       \/ /\ Len(token) = 1 /\ Len(token[1].version) = 3 /\ ~token[1].prerelease
          /\ semverCompare(token[1].version, <<0, 7, 2>>) >= 0
\* The call of the handler that takes the step is suspended at pc.
CallSuspendedAt(bag, pc) ==
    \E t \in BagToSet(bag) :
        t.kind = "doc" /\ t.pc = pc /\ t.document = last'.document /\ t.id = last'.id

\* C28: the per-document handler starts the lint subprocess only in the
\* step in which its own version query completes, and only if the version
\* printed passes the gate; a query that fails ends the call without a lint.
C28_GateBeforeLint ==
    [][/\ (last'.kind = "doc" /\ last'.spawn.kind = "lint")
           => /\ last'.op = "versionDone" /\ CallSuspendedAt(tasks, "version")
              /\ VersionOk
       /\ (last'.op = "versionDone" /\ last'.error # "none")
           => /\ last'.spawn = NoSpawn
              /\ BagCardinality(tasks') = BagCardinality(tasks) - 1]_vars

\* The handler for /r1/a.md has started vale on it after its version
\* query.
C28_Witness ==
    /\ last.op = "versionDone" /\ last.spawn.kind = "lint"
    /\ last.document = DocA /\ last.spawn.paths = <<fileName(DocA)>>

\* C29 (no retries): a call of the handler starts one lint subprocess, and
\* the step in which that subprocess completes ends the call: it starts no
\* subprocess, and a failure is notified in that step.
C29_NoRetry ==
    [][/\ (last'.kind = "doc" /\ last'.spawn.kind = "lint")
           => /\ ~CallSuspendedAt(tasks, "lint")
              /\ BagCardinality(tasks') = BagCardinality(tasks)
       /\ last'.op = "lintDone"
           => /\ last'.spawn = NoSpawn
              /\ BagCardinality(tasks') = BagCardinality(tasks) - 1
              /\ ~CallSuspendedAt(tasks', "lint") /\ ~CallSuspendedAt(tasks', "version")
              /\ (last'.outcome # "success" => last'.notified)]_vars

\* A lint of /r1/a.md has failed on output that is no JSON; the error was
\* notified and no call is left.
C29_Witness ==
    /\ last.op = "lintDone" /\ last.document = DocA
    /\ last.outcome = "failed" /\ last.error = "SyntaxError" /\ last.notified
    /\ tasks = EmptyBag

\* C30: at most one workspace run is in flight.
C30_WorkspaceRunExclusive ==
    \A t, u \in BagToSet(tasks) :
        (t.kind = "batch" /\ u.kind = "batch") => (t = u /\ CopiesIn(t, tasks) = 1)

\* C34: the executable of every version query and every lint invocation is
\* the path configured as vscode-vale.path when one is configured, and the
\* vale of the PATH only when the setting is at its default or empty.
C34_ConfiguredBinaryUsed ==
    last.spawn.kind \in {"version", "lint"} =>
        IF configuration.path \in {ValeOnPath, NoPath}
        THEN runsInstalledVale(last.spawn.binary)
        ELSE /\ ~runsInstalledVale(last.spawn.binary)
             /\ configuration.path = Path(TRUE, <<"opt", "vale">>)
                    => last.spawn.binary = Path(TRUE, <<"opt", "vale">>)

\* The path lies in one of the workspace folders.
InsideARoot(path) == \E i \in DOMAIN workspaceFolders : IsPrefix(workspaceFolders[i], path)
\* The paths of the enumerated files that lie in no workspace folder.
UnownedPaths(uris) ==
    {uris[i].fsPath : i \in {j \in DOMAIN uris : ~InsideARoot(uris[j].fsPath)}}

\* C31: in a workspace run no enumerated file outside every workspace
\* folder is an argument of an invocation or a key of the merged result,
\* and every invocation runs in a workspace folder, with files of that
\* folder only.
C31_UnownedFilesDropped ==
    /\ BatchLintStarted =>
          /\ last.spawn.cwd \in Folders
          /\ last.spawn.directory = workspaceFolders[last.spawn.cwd.index + 1]
          /\ \A k \in DOMAIN last.spawn.paths :
                 /\ last.spawn.paths[k] \notin UnownedPaths(last.uris)
                 /\ IsPrefix(last.spawn.directory, last.spawn.paths[k])
    /\ BatchSucceeded => DOMAIN last.result \cap UnownedPaths(last.uris) = {}

\* A run whose enumeration holds /x/o.md before /r1/a.md has started vale
\* in /r1 on /r1/a.md alone.
C31_Witness ==
    /\ BatchLintStarted /\ last.uris = <<FileX, DocA.uri>>
    /\ last.spawn.directory = <<"r1">> /\ last.spawn.paths = <<fileName(DocA)>>

\* C32: every lint invocation is <binary> --no-exit --output JSON <paths>;
\* the handler of a document passes the path of that document and no other,
\* a workspace run passes every enumerated path of the folder it runs in.
C32_LintCommandLine ==
    last.spawn.kind = "lint" =>
        /\ last.spawn.binary # NoPath
        /\ last.spawn.options = <<"--no-exit", "--output", "JSON">>
        /\ last.kind = "doc" => last.spawn.paths = <<last.document.uri.fsPath>>
        /\ last.kind = "batch" =>
               last.spawn.paths = OwnedPaths(last.uris, last.spawn.cwd)

\* A workspace run has started vale on the file of the second folder while
\* a handler for /r1/a.md is waiting for its own vale.
C32_Witness ==
    /\ BatchLintStarted /\ last.spawn.paths = <<FileC.fsPath>>
    /\ last.spawn.options = runValeOptions
    /\ \E t \in BagToSet(tasks) : t.kind = "doc" /\ t.pc = "lint" /\ t.document = DocA

\* C33: the parse of an output that is JSON has exactly the file keys of
\* the output and, for each, one diagnostic per finding in the order of the
\* findings (the i-th diagnostic has the rule and the line of the i-th
\* finding); the parse of an output that is no JSON fails and yields
\* nothing.
C33_ParseKeepsKeysAndOrder ==
    [][(last.op = "runInWorkspace" /\ last'.op = "runVale") =>
          IF last.result.json
          THEN /\ last'.outcome = "success"
               /\ DOMAIN last'.result.diagnostics = DOMAIN last.result.value
               /\ \A f \in DOMAIN last.result.value :
                      /\ Len(last'.result.diagnostics[f]) = Len(last.result.value[f])
                      /\ \A i \in 1..Len(last.result.value[f]) :
                             /\ last'.result.diagnostics[f][i].code =
                                    last.result.value[f][i].Check
                             /\ last'.result.diagnostics[f][i].range.start[1] =
                                    last.result.value[f][i].Line - 1
          ELSE /\ last'.outcome = "rejected" /\ last'.error = "SyntaxError"
               /\ last'.result.diagnostics = EmptyMap]_vars

\* An output with the findings Spelling, Editorializing for a file was
\* parsed into two diagnostics in that order.
C33_Witness ==
    /\ last.op = "runVale" /\ last.outcome = "success"
    /\ \E f \in DOMAIN last.result.diagnostics :
           /\ Len(last.result.diagnostics[f]) = 2
           /\ last.result.diagnostics[f][1].code = "vale.Spelling"
           /\ last.result.diagnostics[f][2].code = "vale.Editorializing"

\* C35: when the enumeration of a workspace run holds no file of a
\* workspace folder, the step in which findFiles returns starts no vale and
\* ends the run with success: the store is empty afterwards, whatever it
\* held.
C35_RunWithoutOwnedFilesClears ==
    [][(/\ last'.op = "findFilesDone" /\ last'.error # "FindFilesError"
        /\ \A i \in DOMAIN last'.uris : ~InsideARoot(last'.uris[i].fsPath))
       => /\ last'.spawn = NoSpawn /\ last'.outcome = "success"
          /\ store' = EmptyMap
          /\ BagCardinality(tasks') = BagCardinality(tasks) - 1]_vars

\* A run that found only /x/o.md has ended with the store empty, after a
\* handler had linted a document.
C35_Witness ==
    /\ last.op = "findFilesDone" /\ last.outcome = "success"
    /\ last.uris = <<FileX>> /\ store = EmptyMap
    /\ queried # {} /\ events >= 2

\* C36: the handler looks at isDirty when it starts and not again: for a
\* document that is dirty when a subprocess of its handler completes, a
\* passed version query still starts the lint, and a lint that succeeds
\* still publishes its result (each file of the result has the result's
\* diagnostics, and the document has no entry if the result has none for
\* it).
C36_EligibilityCheckedOnce ==
    [][(last'.kind = "doc" /\ last'.document \in dirty /\ last'.document \in dirty')
       => /\ (last'.op = "versionDone" /\ last'.error = "none")
                 => last'.spawn.kind = "lint"
          /\ (last'.op = "lintDone" /\ last'.outcome = "success")
                 => /\ \A f \in DOMAIN last'.result :
                           /\ UriFile(f) \in DOMAIN store'
                           /\ store'[UriFile(f)] = last'.result[f]
                    /\ last'.document.uri.fsPath \notin DOMAIN last'.result
                           => last'.document.uri \notin DOMAIN store']_vars

\* The lint of /r1/a.md has published findings while the document is
\* dirty.
C36_Witness ==
    /\ last.op = "lintDone" /\ last.outcome = "success" /\ last.document = DocA
    /\ DocA \in dirty /\ Entry(DocA) /\ store[DocA.uri] = last.result[fileName(DocA)]

\* C37: the close handler for d removes d's entry and does nothing else:
\* the other entries are as they were, no subprocess is started, nothing
\* is notified and no suspended handler is touched.
C37_CloseOnlyDeletesOwnEntry ==
    [][(events' # events /\ last'.op = "close")
       => /\ DOMAIN store' = DOMAIN store \ {last'.document.uri}
          /\ \A u \in DOMAIN store' : store'[u] = store[u]
          /\ last'.spawn = NoSpawn /\ ~last'.notified
          /\ tasks' = tasks /\ queried' = queried]_vars

\* /r1/a.md was closed and has no entry; the entry of another file is
\* still in the store.
C37_Witness ==
    /\ last.op = "close" /\ last.document = DocA
    /\ ~Entry(DocA) /\ store # EmptyMap /\ events >= 3

\* The document is among the open ones of the activation step.
OpenAtActivation(document) == \E i \in DOMAIN last'.uris : last'.uris[i] = document.uri

\* C38: activation starts one call of the lint handler for every open
\* document that is a clean file of a workspace folder and none for
\* any other document; the calls then run as for an open event, so such a
\* document gets its diagnostics with no open or save event.
C38_OpenDocumentsLintedAtActivation ==
    [][(last.op = "load" /\ last'.op = "activate") =>
          /\ \A d \in ActivationDocuments :
                 CopiesIn(Call(1, DocTask("version", d)), tasks') =
                     IF /\ OpenAtActivation(d) /\ d \notin dirty
                        /\ d.uri.scheme = "file"
                     THEN 1 ELSE 0
          /\ \A t \in BagToSet(tasks') :
                 \E d \in ActivationDocuments : t = Call(1, DocTask("version", d))]_vars

\* /r1/a.md and /r2/c.md, open at activation, both have diagnostics; no
\* open or save event has been delivered.
C38_Witness ==
    /\ last.op = "lintDone" /\ events = 0
    /\ Entry(DocA) /\ Entry(DocC)
    /\ store[DocA.uri] # <<>> /\ tasks = EmptyBag

\* Every entry of the store after the step is one it had before or the
\* diagnostics that the result of the step has for that file.
WrittenFrom(result) ==
    \A u \in DOMAIN store' :
        \/ u \in DOMAIN store /\ store'[u] = store[u]
        \/ \E f \in DOMAIN result : UriFile(f) = u /\ store'[u] = result[f]
\* The store after the step is the store before without some entries.
Reduced == \A u \in DOMAIN store' : u \in DOMAIN store /\ store'[u] = store[u]

\* C39: the store starts empty and a step changes it in two ways only: the
\* step in which a lint of a document or a workspace run succeeds writes
\* entries that are the diagnostics of that result, and any other step
\* that changes it only removes entries.  So every entry is at all times
\* the converted findings of an invocation that succeeded.
C39_StoreHoldsLintResults ==
    [][store' # store =>
          IF last'.outcome = "success" /\ last'.op \in {"lintDone", "findFilesDone",
                                                        "workspaceLintDone"}
          THEN WrittenFrom(last'.result)
          ELSE Reduced /\ last'.op \in {"close", "lintDone", "versionDone"}]_vars

\* A failed lint of /r1/a.md has removed its entry, and the entry of
\* /r2/c.md is still in the store.
C39_Witness ==
    /\ last.op = "lintDone" /\ last.outcome = "failed" /\ last.document = DocA
    /\ DOMAIN store = {FileC}

====
